---- MODULE Spec2Model ----
(***************************************************************************)
(* Model of the intrusive red-black tree of src/rbtree.h.                  *)
(*                                                                         *)
(* The memory of the program is the linkage fields of every record and of  *)
(* the tree's sentinel ("head") node: left, right, parent and the colour   *)
(* bit.  Every operation of the tree is translated statement by statement  *)
(* into an operator from memories to memories; the actions apply the       *)
(* public operations insert and erase to a tree and, in lockstep, to the   *)
(* reference ordered set the tests of src/test-rbtree.cc compare it with.  *)
(* A second specification, SpecBulk, applies the bulk operations (clear,   *)
(* clear_and_dispose, clone, swap) and insert_for_key to two trees.        *)
(***************************************************************************)
EXTENDS Integers, Sequences, FiniteSets, TLC

\* ------------------------------------------------------------------------
\* Bounds

\* number of distinct keys
MaxKey == 5

\* number of additional records whose key duplicates the key of another record
NumDup == 1

\* number of distinct keys of the records used with a second tree
BulkKeys == 4

\* number of records the caller owns for the second tree
OtherKeys == 2

\* number of calls made from the first clone or swap on
MaxCalls == 3

\* ------------------------------------------------------------------------
\* Addresses, records and keys

\* the null pointer
Null == 0

\* the address of the tree's sentinel node head_
head_ == -1

MaxRec == MaxKey + NumDup

\* the caller's records (each embeds one rbtree_node)
Records == 1 .. MaxRec

Keys == 1 .. MaxKey

\* the address of the sentinel of a second tree: rv in clone, other in swap
other_ == -2

Trees == {head_, other_}

\* the records the caller inserts into the first tree when there are two
BulkRecords == 1 .. BulkKeys

\* the address of the copy of record r that a cloner allocates (and of the
\* record it copies, for a copy): it has the key of r
partner(r) == IF r <= MaxRec THEN r + 2 * MaxKey ELSE r - 2 * MaxKey

\* the copies of the records of the first tree
CloneRecords == {partner(r) : r \in BulkRecords}

\* the records the caller inserts into the second tree
OtherRecords == {partner(r) : r \in 1 .. OtherKeys}

Addr == Records \cup CloneRecords \cup Trees

\* the key of a record (struct A { int foo; }): records MaxKey+1.. repeat
\* the keys 1.., so that two distinct records can compare equal
key_of(r) == ((r - 1) % MaxKey) + 1

\* A::operator< / std::less
is_less_than(key0, key1) == key0 < key1

to_key(node) == key_of(node)

\* ------------------------------------------------------------------------
\* rbtree_node: field access on a memory m

set_parent(m, n, p) == [m EXCEPT !.parent[n] = p]

set_left(m, n, c) == [m EXCEPT !.left[n] = c]

set_right(m, n, c) == [m EXCEPT !.right[n] = c]

set_red(m, n) == [m EXCEPT !.is_red[n] = TRUE]

set_black(m, n) == [m EXCEPT !.is_red[n] = FALSE]

set_red_to(m, n, val) == IF val THEN set_red(m, n) ELSE set_black(m, n)

is_black(m, n) == ~m.is_red[n]

unlinked(m, n) == m.parent[n] = Null /\ m.left[n] = Null /\ m.right[n] = Null

\* rbtree_node::reset
reset(m, n) ==
    [m EXCEPT !.left[n] = Null, !.right[n] = Null,
              !.is_red[n] = FALSE, !.parent[n] = Null]

\* rbtree::reset_node (the colour bit is left as it is)
reset_node(m, n) ==
    [m EXCEPT !.parent[n] = Null, !.left[n] = Null, !.right[n] = Null]

\* A failed assert (debug build) or the dereference of a null pointer
\* (release build): the process is gone, the operation never returns.
Abort(m) == [m EXCEPT !.ok = FALSE]

\* ------------------------------------------------------------------------
\* rbtree: private helpers
\*
\* A function body is a LET of its statements, each an operator from the
\* memory before the statement to the memory after it, applied in program
\* order: every read sees the writes of the statements before it.

root(m, h) == m.parent[h]

set_root(m, h, n) ==
    set_parent(IF n # Null THEN set_parent(m, n, h) ELSE m, h, n)

\* rotate_left leaving the parent reference of the node rotated down
rotate_left_parent_kept(m, h, x) ==
    LET y == m.right[x]
        s1(a) == set_right(a, x, a.left[y])
        s2(a) == IF a.left[y] # Null THEN set_parent(a, a.left[y], x) ELSE a
        s3(a) == set_parent(a, y, a.parent[x])
        s4(a) == IF a.parent[x] = h THEN set_root(a, h, y)
                 ELSE IF x = a.left[a.parent[x]]
                      THEN set_left(a, a.parent[x], y)
                      ELSE set_right(a, a.parent[x], y)
        s6(a) == set_left(a, y, x)
    IN  IF ~m.ok THEN m
        ELSE IF m.right[x] = Null THEN Abort(m)
        ELSE s6(s4(s3(s2(s1(m)))))

rotate_left(m, h, x) ==
    LET y == m.right[x]
        s1(a) == set_right(a, x, a.left[y])
        s2(a) == IF a.left[y] # Null THEN set_parent(a, a.left[y], x) ELSE a
        s3(a) == set_parent(a, y, a.parent[x])
        s4(a) == IF a.parent[x] = h THEN set_root(a, h, y)
                 ELSE IF x = a.left[a.parent[x]]
                      THEN set_left(a, a.parent[x], y)
                      ELSE set_right(a, a.parent[x], y)
        s5(a) == set_parent(a, x, y)
        s6(a) == set_left(a, y, x)
    IN  IF ~m.ok THEN m
        ELSE IF m.right[x] = Null THEN Abort(m)
        ELSE s6(s5(s4(s3(s2(s1(m))))))

rotate_right(m, h, x) ==
    LET y == m.left[x]
        s1(a) == set_left(a, x, a.right[y])
        s2(a) == IF a.right[y] # Null THEN set_parent(a, a.right[y], x) ELSE a
        s3(a) == set_parent(a, y, a.parent[x])
        s4(a) == IF a.parent[x] = h THEN set_root(a, h, y)
                 ELSE IF x = a.left[a.parent[x]]
                      THEN set_left(a, a.parent[x], y)
                      ELSE set_right(a, a.parent[x], y)
        s5(a) == set_parent(a, x, y)
        s6(a) == set_right(a, y, x)
    IN  IF ~m.ok THEN m
        ELSE IF m.left[x] = Null THEN Abort(m)
        ELSE s6(s5(s4(s3(s2(s1(m))))))

\* one iteration of the loop of insert_fixup, the parent being a left child;
\* t is the pair of the memory and the local z
insert_fixup_left(m, h, z) ==
    LET y == m.right[m.parent[m.parent[z]]]
        r1(a) == set_black(a, a.parent[z])
        r2(a) == set_black(a, y)
        r3(a) == set_red(a, a.parent[a.parent[z]])
        s1(a) == IF z = a.right[a.parent[z]]
                 THEN [m |-> rotate_left(a, h, a.parent[z]), z |-> a.parent[z]]
                 ELSE [m |-> a, z |-> z]
        s2(t) == [m |-> set_black(t.m, t.m.parent[t.z]), z |-> t.z]
        s3(t) == [m |-> set_red(t.m, t.m.parent[t.m.parent[t.z]]), z |-> t.z]
        s4(t) == [m |-> rotate_right(t.m, h, t.m.parent[t.m.parent[t.z]]),
                  z |-> t.z]
    IN  IF y # Null /\ m.is_red[y]
        THEN [m |-> r3(r2(r1(m))), z |-> m.parent[m.parent[z]]]
        ELSE s4(s3(s2(s1(m))))

\* one iteration of the loop of insert_fixup, the parent being a right child
insert_fixup_right(m, h, z) ==
    LET y == m.left[m.parent[m.parent[z]]]
        r1(a) == set_black(a, a.parent[z])
        r2(a) == set_black(a, y)
        r3(a) == set_red(a, a.parent[a.parent[z]])
        s1(a) == IF z = a.left[a.parent[z]]
                 THEN [m |-> rotate_right(a, h, a.parent[z]), z |-> a.parent[z]]
                 ELSE [m |-> a, z |-> z]
        s2(t) == [m |-> set_black(t.m, t.m.parent[t.z]), z |-> t.z]
        s3(t) == [m |-> set_red(t.m, t.m.parent[t.m.parent[t.z]]), z |-> t.z]
        s4(t) == [m |-> rotate_left(t.m, h, t.m.parent[t.m.parent[t.z]]),
                  z |-> t.z]
    IN  IF y # Null /\ m.is_red[y]
        THEN [m |-> r3(r2(r1(m))), z |-> m.parent[m.parent[z]]]
        ELSE s4(s3(s2(s1(m))))

\* insert_fixup left out: the new node is linked red and only the root is
\* forced black
insert_fixup_skipped(m, h, z) == set_black(m, root(m, h))

\* insert_fixup without the final root()->set_black()
RECURSIVE insert_fixup_root_kept(_, _, _)
insert_fixup_root_kept(m, h, z) ==
    LET loop(t) == insert_fixup_root_kept(t.m, h, t.z)
    IN  IF ~m.ok THEN m
        ELSE IF /\ m.parent[z] # h
                /\ m.is_red[m.parent[z]]
                /\ m.parent[m.parent[z]] # h
        THEN loop(IF m.parent[z] = m.left[m.parent[m.parent[z]]]
                  THEN insert_fixup_left(m, h, z)
                  ELSE insert_fixup_right(m, h, z))
        ELSE m

RECURSIVE insert_fixup(_, _, _)
insert_fixup(m, h, z) ==
    LET loop(t) == insert_fixup(t.m, h, t.z)
    IN  IF ~m.ok THEN m
        ELSE IF /\ m.parent[z] # h
                /\ m.is_red[m.parent[z]]
                /\ m.parent[m.parent[z]] # h
        THEN loop(IF m.parent[z] = m.left[m.parent[m.parent[z]]]
                  THEN insert_fixup_left(m, h, z)
                  ELSE insert_fixup_right(m, h, z))
        ELSE set_black(m, root(m, h))

RECURSIVE find_minimum(_, _)
find_minimum(m, x) ==
    IF m.left[x] # Null THEN find_minimum(m, m.left[x]) ELSE x

RECURSIVE find_maximum(_, _)
find_maximum(m, x) ==
    IF m.right[x] # Null THEN find_maximum(m, m.right[x]) ELSE x

\* the descent loop of insert: x is the node that compares equal (or null),
\* y the last node visited
RECURSIVE insert_descend(_, _, _, _)
insert_descend(m, x, y, key) ==
    IF x = Null THEN [x |-> Null, y |-> y]
    ELSE IF is_less_than(key, to_key(x))
         THEN insert_descend(m, m.left[x], x, key)
         ELSE IF is_less_than(to_key(x), key)
              THEN insert_descend(m, m.right[x], x, key)
              ELSE [x |-> x, y |-> x]

\* find_node descending to the wrong side
RECURSIVE find_node_from_mirrored(_, _, _, _)
find_node_from_mirrored(m, h, x, key) ==
    IF x = Null THEN h
    ELSE IF is_less_than(key, to_key(x))
         THEN find_node_from_mirrored(m, h, m.right[x], key)
         ELSE IF is_less_than(to_key(x), key)
              THEN find_node_from_mirrored(m, h, m.left[x], key)
              ELSE x

\* the descent of find_node from node x; the result is the node found or
\* the sentinel (end())
RECURSIVE find_node_from(_, _, _, _)
find_node_from(m, h, x, key) ==
    IF x = Null THEN h
    ELSE IF is_less_than(key, to_key(x))
         THEN find_node_from(m, h, m.left[x], key)
         ELSE IF is_less_than(to_key(x), key)
              THEN find_node_from(m, h, m.right[x], key)
              ELSE x

\* find_node returning the last node visited where it should return end()
find_node_nearest(m, h, key) ==
    LET pick(d) == IF d.y = Null THEN h ELSE d.y
    IN  pick(insert_descend(m, root(m, h), Null, key))

find_node(m, h, key) == find_node_from(m, h, root(m, h), key)

\* rbtree::end
end(h) == h

\* rbtree::begin
begin(m, h) == m.left[h]

\* rbtree::empty
empty(m, h) == root(m, h) = Null

\* rbtree::contains
contains(m, h, key) == end(h) # find_node(m, h, key)

\* transplant always writing the parent's left link
transplant_left_only(m, h, u, v) ==
    LET s1(a) == IF a.parent[u] = h THEN set_root(a, h, v)
                 ELSE set_left(a, a.parent[u], v)
        s2(a) == IF v # Null THEN set_parent(a, v, a.parent[u]) ELSE a
    IN  s2(s1(m))

transplant(m, h, u, v) ==
    LET s1(a) == IF a.parent[u] = h THEN set_root(a, h, v)
                 ELSE IF u = a.left[a.parent[u]]
                      THEN set_left(a, a.parent[u], v)
                      ELSE set_right(a, a.parent[u], v)
        s2(a) == IF v # Null THEN set_parent(a, v, a.parent[u]) ELSE a
    IN  s2(s1(m))

\* the part of erase_node that moves the sentinel's references away from z
erase_node_head(m, h, z) ==
    LET s1(a) == IF a.parent[h] = z THEN set_parent(a, h, Null) ELSE a
        s2(a) == IF a.left[h] = z
                 THEN set_left(a, h, IF a.right[z] # Null
                                     THEN find_minimum(a, a.right[z])
                                     ELSE a.parent[z])
                 ELSE a
        s3(a) == IF a.right[h] = z
                 THEN set_right(a, h, IF a.left[z] # Null
                                      THEN find_maximum(a, a.left[z])
                                      ELSE a.parent[z])
                 ELSE a
    IN  s3(s2(s1(m)))

\* the two-children case of erase_node, y being find_minimum(z->right)
erase_node_successor(m, h, z, y) ==
    LET t1(a) == transplant(a, h, y, a.right[y])
        t2(a) == set_right(a, y, a.right[z])
        t3(a) == set_parent(a, a.right[y], y)
        s1(a) == IF a.parent[y] # z THEN t3(t2(t1(a))) ELSE a
        s2(a) == transplant(a, h, z, y)
        s3(a) == set_left(a, y, a.left[z])
        s4(a) == set_parent(a, a.left[y], y)
        s5(a) == set_red_to(a, y, a.is_red[z])
    IN  [m |-> s5(s4(s3(s2(s1(m))))),
         x |-> m.right[y], y_is_red |-> m.is_red[y]]

\* the part of erase_node that splices z out; the result is the memory, the
\* node x that took the place of the spliced-out node y, and y's old colour
erase_node_splice(m, h, z) ==
    IF m.left[z] = Null
    THEN [m |-> transplant(m, h, z, m.right[z]),
          x |-> m.right[z], y_is_red |-> m.is_red[z]]
    ELSE IF m.right[z] = Null
    THEN [m |-> transplant(m, h, z, m.left[z]),
          x |-> m.left[z], y_is_red |-> m.is_red[z]]
    ELSE erase_node_successor(m, h, z, find_minimum(m, m.right[z]))

\* one iteration of the loop of erase_fixup, x being a left child; the
\* local w is x->parent()->right wherever the code reads it
erase_fixup_left(m, h, x) ==
    LET w(a) == a.right[a.parent[x]]
        black(a, n) == n = Null \/ is_black(a, n)
        failed(a) == [m |-> Abort(a), x |-> x]
        \* w is red
        c1a(a) == set_black(a, w(a))
        c1b(a) == set_red(a, a.parent[x])
        c1c(a) == rotate_left(a, h, a.parent[x])
        c1(a) == IF a.is_red[w(a)] THEN c1c(c1b(c1a(a))) ELSE a
        \* w's right child is black
        c3a(a) == set_black(a, a.left[w(a)])
        c3b(a) == set_red(a, w(a))
        c3c(a) == rotate_right(a, h, w(a))
        c3(a) == IF black(a, a.right[w(a)]) THEN c3c(c3b(c3a(a))) ELSE a
        c4a(a) == set_red_to(a, w(a), a.is_red[a.parent[x]])
        c4b(a) == set_black(a, a.parent[x])
        c4c(a) == IF a.right[w(a)] # Null
                  THEN set_black(a, a.right[w(a)]) ELSE a
        c4d(a) == rotate_left(a, h, a.parent[x])
        c4e(a) == [m |-> a, x |-> root(a, h)]
        after3(a) == IF w(a) = Null THEN failed(a)
                     ELSE c4e(c4d(c4c(c4b(c4a(a)))))
        after1(a) == IF w(a) = Null THEN failed(a)
                     ELSE IF black(a, a.left[w(a)]) /\ black(a, a.right[w(a)])
                     THEN [m |-> set_red(a, w(a)), x |-> a.parent[x]]
                     ELSE after3(c3(a))
    IN  IF w(m) = Null THEN failed(m) ELSE after1(c1(m))

\* one iteration of the loop of erase_fixup, x being a right child; the
\* local w is x->parent()->left wherever the code reads it
erase_fixup_right(m, h, x) ==
    LET w(a) == a.left[a.parent[x]]
        black(a, n) == n = Null \/ is_black(a, n)
        failed(a) == [m |-> Abort(a), x |-> x]
        \* w is red
        c1a(a) == set_black(a, w(a))
        c1b(a) == set_red(a, a.parent[x])
        c1c(a) == rotate_right(a, h, a.parent[x])
        c1(a) == IF a.is_red[w(a)] THEN c1c(c1b(c1a(a))) ELSE a
        \* w's left child is black
        c3a(a) == set_black(a, a.right[w(a)])
        c3b(a) == set_red(a, w(a))
        c3c(a) == rotate_left(a, h, w(a))
        c3(a) == IF black(a, a.left[w(a)]) THEN c3c(c3b(c3a(a))) ELSE a
        c4a(a) == set_red_to(a, w(a), a.is_red[a.parent[x]])
        c4b(a) == set_black(a, a.parent[x])
        c4c(a) == IF a.left[w(a)] # Null
                  THEN set_black(a, a.left[w(a)]) ELSE a
        c4d(a) == rotate_right(a, h, a.parent[x])
        c4e(a) == [m |-> a, x |-> root(a, h)]
        after3(a) == IF w(a) = Null THEN failed(a)
                     ELSE c4e(c4d(c4c(c4b(c4a(a)))))
        after1(a) == IF w(a) = Null THEN failed(a)
                     ELSE IF black(a, a.right[w(a)]) /\ black(a, a.left[w(a)])
                     THEN [m |-> set_red(a, w(a)), x |-> a.parent[x]]
                     ELSE after3(c3(a))
    IN  IF w(m) = Null THEN failed(m) ELSE after1(c1(m))

RECURSIVE erase_fixup(_, _, _)
erase_fixup(m, h, x) ==
    LET loop(t) == erase_fixup(t.m, h, t.x)
    IN  IF ~m.ok THEN m
        ELSE IF x # root(m, h) /\ is_black(m, x)
        THEN loop(IF x = m.left[m.parent[x]]
                  THEN erase_fixup_left(m, h, x)
                  ELSE erase_fixup_right(m, h, x))
        ELSE set_black(m, x)

erase_node(m, h, z) ==
    LET fix(s) == IF ~s.y_is_red /\ s.x # Null
                  THEN erase_fixup(s.m, h, s.x)
                  ELSE s.m
    IN  fix(erase_node_splice(erase_node_head(m, h, z), h, z))

\* ------------------------------------------------------------------------
\* rbtree_iterator

RECURSIVE next_climb(_, _, _)
next_climb(m, curr, nxt) ==
    IF m.right[nxt] = curr
    THEN next_climb(m, nxt, m.parent[nxt])
    ELSE IF m.right[curr] = nxt THEN curr ELSE nxt

\* next descending one step only into the right subtree
next_right_child(m, curr) ==
    IF m.right[curr] # Null
    THEN m.right[curr]
    ELSE next_climb(m, curr, m.parent[curr])

\* rbtree_iterator::next
next(m, curr) ==
    IF m.right[curr] # Null
    THEN find_minimum(m, m.right[curr])
    ELSE next_climb(m, curr, m.parent[curr])

RECURSIVE prev_climb(_, _, _)
prev_climb(m, curr, nxt) ==
    IF m.left[nxt] = curr
    THEN prev_climb(m, nxt, m.parent[nxt])
    ELSE IF m.right[curr] = nxt THEN curr ELSE nxt

\* rbtree_iterator::prev
prev(m, curr) ==
    IF m.left[curr] # Null
    THEN find_maximum(m, m.left[curr])
    ELSE prev_climb(m, curr, m.parent[curr])

\* for (value_type& node : tree): the records visited from `it` up to end(),
\* at most `fuel` of them
RECURSIVE iterate_from(_, _, _, _)
iterate_from(m, h, it, fuel) ==
    IF it = end(h) \/ fuel = 0 THEN << >>
    ELSE << it >> \o iterate_from(m, h, next(m, it), fuel - 1)

iterate(m, h) == iterate_from(m, h, begin(m, h), MaxRec + 1)

\* ------------------------------------------------------------------------
\* rbtree: public modifiers

\* insert_parent choosing the side of y with the comparison reversed
insert_parent_reversed(m, h, y, z) ==
    LET r1(a) == set_root(a, h, z)
        r2(a) == set_left(a, h, root(a, h))
        r3(a) == set_right(a, h, root(a, h))
        p1(a) == set_parent(a, z, y)
        l2(a) == set_left(a, y, z)
        l3(a) == IF a.left[h] = y THEN set_left(a, h, z) ELSE a
        g2(a) == set_right(a, y, z)
        g3(a) == IF a.right[h] = y THEN set_right(a, h, z) ELSE a
        s1(a) == IF y = Null THEN r3(r2(r1(a)))
                 ELSE IF is_less_than(to_key(y), to_key(z))
                      THEN l3(l2(p1(a)))
                      ELSE g3(g2(p1(a)))
        s2(a) == set_red(set_right(set_left(a, z, Null), z, Null), z)
    IN  [m |-> insert_fixup(s2(s1(m)), h, z), it |-> z, inserted |-> TRUE]

\* insert_parent without the update of the cached minimum head_.left
insert_parent_min_kept(m, h, y, z) ==
    LET r1(a) == set_root(a, h, z)
        r2(a) == set_left(a, h, root(a, h))
        r3(a) == set_right(a, h, root(a, h))
        p1(a) == set_parent(a, z, y)
        l2(a) == set_left(a, y, z)
        g2(a) == set_right(a, y, z)
        g3(a) == IF a.right[h] = y THEN set_right(a, h, z) ELSE a
        s1(a) == IF y = Null THEN r3(r2(r1(a)))
                 ELSE IF is_less_than(to_key(z), to_key(y))
                      THEN l2(p1(a))
                      ELSE g3(g2(p1(a)))
        s2(a) == set_red(set_right(set_left(a, z, Null), z, Null), z)
    IN  [m |-> insert_fixup(s2(s1(m)), h, z), it |-> z, inserted |-> TRUE]

\* the part of insert_parent before the call of insert_fixup: z is linked
\* below y as a red leaf
insert_parent_link(m, h, y, z) ==
    LET r1(a) == set_root(a, h, z)
        r2(a) == set_left(a, h, root(a, h))
        r3(a) == set_right(a, h, root(a, h))
        p1(a) == set_parent(a, z, y)
        l2(a) == set_left(a, y, z)
        l3(a) == IF a.left[h] = y THEN set_left(a, h, z) ELSE a
        g2(a) == set_right(a, y, z)
        g3(a) == IF a.right[h] = y THEN set_right(a, h, z) ELSE a
        s1(a) == IF y = Null THEN r3(r2(r1(a)))
                 ELSE IF is_less_than(to_key(z), to_key(y))
                      THEN l3(l2(p1(a)))
                      ELSE g3(g2(p1(a)))
        s2(a) == set_red(set_right(set_left(a, z, Null), z, Null), z)
    IN  s2(s1(m))

insert_parent(m, h, y, z) ==
    [m |-> insert_fixup(insert_parent_link(m, h, y, z), h, z),
     it |-> z, inserted |-> TRUE]

\* insert resetting the record before the descent instead of after it
insert_reset_first(m, h, value) ==
    LET link(a, d) == IF d.x # Null
                      THEN [m |-> a, it |-> d.x, inserted |-> FALSE]
                      ELSE insert_parent(a, h, d.y, value)
        descend(a) == link(a, insert_descend(a, root(a, h), Null,
                                             to_key(value)))
    IN  descend(reset(m, value))

insert(m, h, value) ==
    LET link(d) == IF d.x # Null
                   THEN [m |-> m, it |-> d.x, inserted |-> FALSE]
                   ELSE insert_parent(reset(m, value), h, d.y, value)
    IN  link(insert_descend(m, root(m, h), Null, to_key(value)))

erase(m, h, key) ==
    LET done(a, it) == IF a.ok
                       THEN [m |-> reset_node(a, it), ret |-> it]
                       ELSE [m |-> a, ret |-> Null]
        at(it) == IF it = end(h)
                  THEN [m |-> m, ret |-> Null]
                  ELSE done(erase_node(m, h, it), it)
    IN  at(find_node(m, h, key))

\* insert_for_key calling the factory before the descent
insert_for_key_eager(m, h, key, z) ==
    LET called(res) == [m |-> res.m, it |-> res.it,
                        inserted |-> res.inserted, calls |-> 1]
        link(d) == IF d.x # Null
                   THEN [m |-> m, it |-> d.x, inserted |-> FALSE, calls |-> 1]
                   ELSE called(insert_parent(m, h, d.y, z))
    IN  link(insert_descend(m, root(m, h), Null, key))

\* insert_for_key: z is the node the factory fn returns when it is called;
\* calls counts the invocations of fn
insert_for_key(m, h, key, z) ==
    LET called(res) == [m |-> res.m, it |-> res.it,
                        inserted |-> res.inserted, calls |-> 1]
        link(d) == IF d.x # Null
                   THEN [m |-> m, it |-> d.x, inserted |-> FALSE, calls |-> 0]
                   ELSE called(insert_parent(m, h, d.y, z))
    IN  link(insert_descend(m, root(m, h), Null, key))

\* rbtree::clear
clear(m, h) ==
    set_right(set_left(set_parent(m, h, h), h, Null), h, Null)

\* clear_and_dispose_helper stepping to the left child without relinking it
RECURSIVE clear_and_dispose_helper_unrotated(_, _, _)
clear_and_dispose_helper_unrotated(m, x, d) ==
    IF x = Null THEN [m |-> m, disposed |-> d]
    ELSE IF m.left[x] # Null
         THEN clear_and_dispose_helper_unrotated(m, m.left[x], d)
         ELSE clear_and_dispose_helper_unrotated(m, m.right[x], Append(d, x))

\* clear_and_dispose_helper: d is the sequence of the records passed to the
\* disposer so far
RECURSIVE clear_and_dispose_helper(_, _, _)
clear_and_dispose_helper(m, x, d) ==
    LET rotated(a, s) == set_right(set_left(a, x, a.right[s]), s, x)
    IN  IF x = Null THEN [m |-> m, disposed |-> d]
        ELSE IF m.left[x] # Null
             THEN clear_and_dispose_helper(rotated(m, m.left[x]), m.left[x], d)
             ELSE clear_and_dispose_helper(m, m.right[x], Append(d, x))

\* clear_and_dispose resetting the node that was the root after the walk
clear_and_dispose_root_reset(m, h) ==
    LET s2(a) == set_root(a, h, Null)
        s3(a) == set_left(a, h, Null)
        s4(a) == set_right(a, h, Null)
        s5(a) == IF root(m, h) # Null THEN reset(a, root(m, h)) ELSE a
        s1(w) == [m |-> s5(s4(s3(s2(w.m)))), disposed |-> w.disposed]
    IN  s1(clear_and_dispose_helper(m, root(m, h), << >>))

\* rbtree::clear_and_dispose
clear_and_dispose(m, h) ==
    LET s2(a) == set_root(a, h, Null)
        s3(a) == set_left(a, h, Null)
        s4(a) == set_right(a, h, Null)
        s1(w) == [m |-> s4(s3(s2(w.m))), disposed |-> w.disposed]
    IN  s1(clear_and_dispose_helper(m, root(m, h), << >>))

\* the two-sided exchange of swap leaving the roots' parent references
swap_both_roots_kept(m, h, o) ==
    LET s1(a) == set_left(set_left(a, h, a.left[o]), o, a.left[h])
        s2(a) == set_right(set_right(a, h, a.right[o]), o, a.right[h])
        s3(a) == set_parent(set_parent(a, h, a.parent[o]), o, a.parent[h])
    IN  IF m.is_red[h] # m.is_red[o] THEN Abort(m)
        ELSE s3(s2(s1(m)))

\* the two-sided exchange of swap, both trees holding records
swap_both(m, h, o) ==
    LET s1(a) == set_left(set_left(a, h, a.left[o]), o, a.left[h])
        s2(a) == set_right(set_right(a, h, a.right[o]), o, a.right[h])
        s3(a) == set_parent(set_parent(a, h, a.parent[o]), o, a.parent[h])
        s4(a) == set_parent(a, a.parent[h], h)
        s5(a) == set_parent(a, a.parent[o], o)
    IN  IF m.is_red[h] # m.is_red[o] THEN Abort(m)
        ELSE s5(s4(s3(s2(s1(m)))))

\* the one-sided move of swap leaving the root's parent reference
swap_move_root_kept(m, from, to) ==
    LET s1(a) == set_left(a, to, a.left[from])
        s2(a) == set_right(a, to, a.right[from])
        s3(a) == set_parent(a, to, a.parent[from])
        s5(a) == set_left(a, from, from)
        s6(a) == set_right(a, from, from)
        s7(a) == set_parent(a, from, Null)
    IN  s7(s6(s5(s3(s2(s1(m))))))

\* the one-sided move of swap: all of the tree `from` goes to the tree `to`
swap_move(m, from, to) ==
    LET s1(a) == set_left(a, to, a.left[from])
        s2(a) == set_right(a, to, a.right[from])
        s3(a) == set_parent(a, to, a.parent[from])
        s4(a) == set_parent(a, a.parent[to], to)
        s5(a) == set_left(a, from, from)
        s6(a) == set_right(a, from, from)
        s7(a) == set_parent(a, from, Null)
    IN  s7(s6(s5(s4(s3(s2(s1(m)))))))

\* rbtree::swap (the comparator and the key extractor hold no state)
swap(m, h, o) ==
    IF m.parent[h] # Null /\ m.parent[o] # Null THEN swap_both(m, h, o)
    ELSE IF m.parent[h] # Null THEN swap_move(m, h, o)
    ELSE IF m.parent[o] # Null THEN swap_move(m, o, h)
    ELSE m

\* the constructor of rbtree leaving the sentinel red
rbtree_red(m, h) == set_red(set_right(set_left(reset(m, h), h, h), h, h), h)

\* the constructor of rbtree, building a tree at the sentinel h
rbtree(m, h) == set_right(set_left(reset(m, h), h, h), h, h)

\* the cloner: it returns a new record, the copy of orig, whose node has the
\* fields of a newly constructed rbtree_node
cloner(m, orig) == reset(m, partner(orig))

\* the walk of clone recording the new minimum in the sentinel of the
\* original
RECURSIVE clone_walk_head_written(_, _, _, _, _, _, _)
clone_walk_head_written(m, h, rv, node_orig, node_clone, cloned, fail_at) ==
    LET throws == Len(cloned) + 1 = fail_at
        thrown == [m |-> m, cloned |-> cloned, thrown |-> TRUE]
        c1(a, o) == cloner(a, o)
        c2(a, o) == set_red_to(a, partner(o), a.is_red[o])
        l3(a, o) == set_left(a, node_clone, partner(o))
        r3(a, o) == set_right(a, node_clone, partner(o))
        c4(a, o) == set_parent(a, partner(o), node_clone)
        l5(a, o) == IF a.left[o] = a.left[h]
                    THEN set_left(a, h, partner(o)) ELSE a
        r5(a, o) == IF a.right[o] = a.right[h]
                    THEN set_right(a, rv, partner(o)) ELSE a
        left(o) == clone_walk_head_written(
                       l5(c4(l3(c2(c1(m, o), o), o), o), o), h, rv,
                       o, partner(o), Append(cloned, partner(o)), fail_at)
        right(o) == clone_walk_head_written(
                        r5(c4(r3(c2(c1(m, o), o), o), o), o), h, rv,
                        o, partner(o), Append(cloned, partner(o)), fail_at)
    IN  IF m.left[node_orig] # Null /\ m.left[node_clone] = Null
        THEN IF throws THEN thrown ELSE left(m.left[node_orig])
        ELSE IF m.right[node_orig] # Null /\ m.right[node_clone] = Null
        THEN IF throws THEN thrown ELSE right(m.right[node_orig])
        ELSE IF m.parent[node_orig] = h
        THEN [m |-> m, cloned |-> cloned, thrown |-> FALSE]
        ELSE clone_walk_head_written(m, h, rv, m.parent[node_orig],
                                     m.parent[node_clone], cloned, fail_at)

\* the pre-order walk of clone below the root: cloned is the sequence of the
\* records the cloner has returned, and the cloner throws in its call number
\* fail_at (never, when fail_at is 0)
RECURSIVE clone_walk(_, _, _, _, _, _, _)
clone_walk(m, h, rv, node_orig, node_clone, cloned, fail_at) ==
    LET throws == Len(cloned) + 1 = fail_at
        thrown == [m |-> m, cloned |-> cloned, thrown |-> TRUE]
        c1(a, o) == cloner(a, o)
        c2(a, o) == set_red_to(a, partner(o), a.is_red[o])
        l3(a, o) == set_left(a, node_clone, partner(o))
        r3(a, o) == set_right(a, node_clone, partner(o))
        c4(a, o) == set_parent(a, partner(o), node_clone)
        l5(a, o) == IF a.left[o] = a.left[h]
                    THEN set_left(a, rv, partner(o)) ELSE a
        r5(a, o) == IF a.right[o] = a.right[h]
                    THEN set_right(a, rv, partner(o)) ELSE a
        left(o) == clone_walk(l5(c4(l3(c2(c1(m, o), o), o), o), o), h, rv,
                              o, partner(o), Append(cloned, partner(o)),
                              fail_at)
        right(o) == clone_walk(r5(c4(r3(c2(c1(m, o), o), o), o), o), h, rv,
                               o, partner(o), Append(cloned, partner(o)),
                               fail_at)
    IN  IF m.left[node_orig] # Null /\ m.left[node_clone] = Null
        THEN IF throws THEN thrown ELSE left(m.left[node_orig])
        ELSE IF m.right[node_orig] # Null /\ m.right[node_clone] = Null
        THEN IF throws THEN thrown ELSE right(m.right[node_orig])
        ELSE IF m.parent[node_orig] = h
        THEN [m |-> m, cloned |-> cloned, thrown |-> FALSE]
        ELSE clone_walk(m, h, rv, m.parent[node_orig], m.parent[node_clone],
                        cloned, fail_at)

\* the rollback of clone stepping to the left child without relinking it
RECURSIVE clone_rollback_unrotated(_, _, _)
clone_rollback_unrotated(m, x, d) ==
    IF x = Null THEN [m |-> m, disposed |-> d]
    ELSE IF m.left[x] # Null
         THEN clone_rollback_unrotated(m, m.left[x], d)
         ELSE clone_rollback_unrotated(m, m.right[x], Append(d, x))

\* the body of the rollback of clone: d is the sequence of the records
\* passed to the disposer so far
RECURSIVE clone_rollback(_, _, _)
clone_rollback(m, x, d) ==
    LET rotated(a, save) == set_right(set_left(a, x, a.right[save]), save, x)
    IN  IF x = Null THEN [m |-> m, disposed |-> d]
        ELSE IF m.left[x] # Null
             THEN clone_rollback(rotated(m, m.left[x]), m.left[x], d)
             ELSE clone_rollback(m, m.right[x], Append(d, x))

\* finally: the guard that runs the rollback when clone is left by the
\* cloner's exception (w.thrown; the flag rollback is still true); the
\* destructor of rv runs after it
finally(w, rv) ==
    LET unwound(u) == [m |-> clear(u.m, rv), cloned |-> w.cloned,
                       disposed |-> u.disposed, thrown |-> TRUE]
    IN  IF w.thrown
        THEN unwound(clone_rollback(w.m, root(w.m, rv), << >>))
        ELSE [m |-> w.m, cloned |-> w.cloned, disposed |-> << >>,
              thrown |-> FALSE]

\* the part of clone of a tree holding records that runs before the guard
\* finally is left: the copy of the root and the walk below it, up to the
\* return or to the call of the cloner that throws
clone_build(m, h, rv, fail_at) ==
    LET n == partner(root(m, h))
        s1(a) == cloner(a, root(a, h))
        s2(a) == set_parent(a, n, rv)
        s3(a) == set_red_to(a, n, a.is_red[root(a, h)])
        s4(a) == set_parent(a, rv, n)
        s5(a) == set_left(a, rv, n)
        s6(a) == set_right(a, rv, n)
        walk(a) == clone_walk(a, h, rv, root(a, h), n, << n >>, fail_at)
    IN  IF fail_at = 1
        THEN [m |-> rbtree(m, rv), cloned |-> << >>, thrown |-> TRUE]
        ELSE walk(s6(s5(s4(s3(s2(s1(rbtree(m, rv))))))))

\* clone leaving the parent reference of the copied root unset
clone_root_unparented(m, h, rv, fail_at) ==
    LET n == partner(root(m, h))
        s1(a) == cloner(a, root(a, h))
        s3(a) == set_red_to(a, n, a.is_red[root(a, h)])
        s4(a) == set_parent(a, rv, n)
        s5(a) == set_left(a, rv, n)
        s6(a) == set_right(a, rv, n)
        walk(a) == clone_walk(a, h, rv, root(a, h), n, << n >>, fail_at)
    IN  IF empty(m, h)
        THEN [m |-> rbtree(m, rv), cloned |-> << >>, disposed |-> << >>,
              thrown |-> FALSE]
        ELSE IF fail_at = 1
        THEN finally([m |-> rbtree(m, rv), cloned |-> << >>,
                      thrown |-> TRUE], rv)
        ELSE finally(walk(s6(s5(s4(s3(s1(rbtree(m, rv))))))), rv)

\* rbtree::clone into the tree rv
clone(m, h, rv, fail_at) ==
    IF empty(m, h)
    THEN [m |-> rbtree(m, rv), cloned |-> << >>, disposed |-> << >>,
          thrown |-> FALSE]
    ELSE finally(clone_build(m, h, rv, fail_at), rv)

\* ------------------------------------------------------------------------
\* State

\* mem:  the linkage fields of the sentinel and of every record, and whether
\*       the process is still running (ok)
\* ref:  the keys of the reference std::set the tests keep in lockstep
\* last: the last call made: its arguments (rec, key), its results (ret,
\*       inserted), whether the reference set held the key (had), the
\*       records the caller saw iterating the tree just before the call
\*       (pre), and whether the call before it was the opposite operation
\*       on the same key and took effect (follows)
\* bulk: the last call made when two trees are in use: the operation (op),
\*       the sentinel of the tree it was called on (tree), its key argument
\*       (key), its results (it, inserted), the number of calls of the
\*       factory (calls), the call of the cloner that throws (fail_at, 0 for
\*       none), the records returned by the cloner (cloned), the
\*       records passed to the disposer (disposed), and whether it was left
\*       by an exception (thrown); n counts the calls from the first clone
\*       or swap on, clones and swaps the calls of clone and of swap made
\*       so far
VARIABLES mem, ref, last, bulk

vars == << mem, ref, last, bulk >>

\* no call made yet
no_call ==
    [op |-> "none", tree |-> Null, key |-> Null, it |-> Null,
     inserted |-> FALSE, calls |-> 0, cloned |-> << >>, disposed |-> << >>,
     thrown |-> FALSE, fail_at |-> 0, n |-> 0, clones |-> 0,
     swaps |-> 0]

\* rbtree::rbtree and the default member initialisers of rbtree_node
Init ==
    /\ mem = [left   |-> [a \in Addr |-> IF a \in Trees THEN a ELSE Null],
              right  |-> [a \in Addr |-> IF a \in Trees THEN a ELSE Null],
              parent |-> [a \in Addr |-> Null],
              is_red |-> [a \in Addr |-> FALSE],
              ok     |-> TRUE]
    /\ ref = {}
    /\ last = [op |-> "none", rec |-> Null, key |-> Null, ret |-> Null,
               inserted |-> FALSE, had |-> FALSE, follows |-> FALSE,
               pre |-> << >>]
    /\ bulk = no_call

\* set.insert(key); tree.insert(record)
Insert(r) ==
    LET returned(res) ==
            /\ mem' = res.m
            /\ last' = [op |-> "insert", rec |-> r, key |-> key_of(r),
                        ret |-> res.it, inserted |-> res.inserted,
                        had |-> key_of(r) \in ref,
                        follows |-> /\ last.op = "erase"
                                    /\ last.key = key_of(r)
                                    /\ last.ret # Null,
                        pre |-> iterate(mem, head_)]
    IN  /\ mem.ok
        /\ returned(insert(mem, head_, r))
        /\ ref' = ref \cup {key_of(r)}
        /\ UNCHANGED bulk

\* set.erase(key); tree.erase(key)
Erase(k) ==
    LET returned(res) ==
            /\ mem' = res.m
            /\ last' = [op |-> "erase", rec |-> Null, key |-> k,
                        ret |-> res.ret, inserted |-> FALSE,
                        had |-> k \in ref,
                        follows |-> /\ last.op = "insert"
                                    /\ last.key = k
                                    /\ last.inserted,
                        pre |-> iterate(mem, head_)]
    IN  /\ mem.ok
        /\ returned(erase(mem, head_, k))
        /\ ref' = ref \ {k}
        /\ UNCHANGED bulk

Next ==
    \/ \E r \in Records : Insert(r)
    \/ \E k \in Keys : Erase(k)

Spec == Init /\ [][Next]_vars

\* ------------------------------------------------------------------------
\* Two trees: the calls of a program that keeps a tree a (sentinel head_)
\* and a tree b (sentinel other_), b being built by its own inserts or
\* returned by a.clone

children(m, S) ==
    ({m.left[n] : n \in S} \cup {m.right[n] : n \in S}) \ {Null}

RECURSIVE closure(_, _)
closure(m, S) ==
    LET T == S \cup children(m, S)
    IN  IF T = S THEN S ELSE closure(m, T)

\* the nodes of the subtree rooted at n
subtree(m, n) == IF n = Null THEN {} ELSE closure(m, {n})

\* the records linked into the tree of sentinel h
linked(m, h) == subtree(m, root(m, h))

\* the other tree
Other(t) == IF t = head_ THEN other_ ELSE head_

\* the records the caller owns for tree t
Pool(t) == IF t = head_ THEN BulkRecords ELSE OtherRecords

\* the value of bulk.n after a call that is not a clone or swap
Counted == IF bulk.n = 0 THEN 0 ELSE bulk.n + 1

\* the process runs, and no tree has been given up: after clear() and after
\* clear_and_dispose() the program only destroys the tree; the program makes
\* at most MaxCalls calls from its first clone or swap on
Live ==
    /\ mem.ok
    /\ bulk.op \notin {"clear", "clear_and_dispose"}
    /\ bulk.n < MaxCalls

\* tree t exists: the rv of a clone that threw is destroyed
Alive(t) == root(mem, t) # t

\* tree.insert(record) on tree t
InsertInto(t, r) ==
    /\ Live /\ Alive(t)
    /\ r \in Pool(t)
    /\ r \notin linked(mem, Other(t))
    /\ mem' = insert(mem, t, r).m
    /\ bulk' = [no_call EXCEPT !.op = "insert", !.tree = t, !.n = Counted,
                        !.clones = bulk.clones, !.swaps = bulk.swaps]
    /\ UNCHANGED << ref, last >>

\* tree.erase(key) on tree t
EraseFrom(t, k) ==
    /\ Live /\ Alive(t)
    /\ mem' = erase(mem, t, k).m
    /\ bulk' = [no_call EXCEPT !.op = "erase", !.tree = t, !.n = Counted,
                        !.clones = bulk.clones, !.swaps = bulk.swaps]
    /\ UNCHANGED << ref, last >>

\* tree.insert_for_key(key, factory) on tree t, the factory making record z
InsertForKey(t, k, z) ==
    LET returned(res) ==
            /\ mem' = res.m
            /\ bulk' = [no_call EXCEPT !.op = "insert_for_key", !.tree = t,
                                       !.n = Counted, !.clones = bulk.clones,
                                       !.swaps = bulk.swaps,
                                       !.key = k, !.it = res.it,
                                       !.inserted = res.inserted,
                                       !.calls = res.calls]
    IN  /\ Live /\ Alive(t)
        /\ z \in Pool(t) /\ key_of(z) = k
        /\ z \notin linked(mem, head_) \cup linked(mem, other_)
        /\ returned(insert_for_key(mem, t, k, z))
        /\ UNCHANGED << ref, last >>

\* tree.clear() on tree t
Clear(t) ==
    /\ Live /\ Alive(t)
    /\ mem' = clear(mem, t)
    /\ bulk' = [no_call EXCEPT !.op = "clear", !.tree = t, !.n = Counted,
                        !.clones = bulk.clones, !.swaps = bulk.swaps]
    /\ UNCHANGED << ref, last >>

\* tree.clear_and_dispose(disposer) on tree t
ClearAndDispose(t) ==
    LET returned(res) ==
            /\ mem' = res.m
            /\ bulk' = [no_call EXCEPT !.op = "clear_and_dispose", !.tree = t,
                                       !.n = Counted, !.clones = bulk.clones,
                                       !.swaps = bulk.swaps,
                                       !.disposed = res.disposed]
    IN  /\ Live /\ Alive(t)
        /\ returned(clear_and_dispose(mem, t))
        /\ UNCHANGED << ref, last >>

\* b = a.clone(cloner, disposer), the cloner throwing in its call number
\* fail_at (never, when fail_at is 0); b holds no record before, and a
\* holds records of the caller, whose copies the cloner can allocate
Clone(fail_at) ==
    LET returned(res) ==
            /\ mem' = res.m
            /\ bulk' = [no_call EXCEPT !.op = "clone", !.tree = head_,
                                       !.n = bulk.n + 1,
                                       !.clones = bulk.clones + 1,
                                       !.swaps = bulk.swaps,
                                       !.fail_at = fail_at,
                                       !.cloned = res.cloned,
                                       !.disposed = res.disposed,
                                       !.thrown = res.thrown]
    IN  /\ Live /\ Alive(head_)
        /\ linked(mem, head_) \subseteq BulkRecords
        /\ Alive(other_) => linked(mem, other_) = {}
        /\ fail_at <= Cardinality(linked(mem, head_))
        /\ returned(clone(mem, head_, other_, fail_at))
        /\ UNCHANGED << ref, last >>

\* t.swap(the other tree)
Swap(t) ==
    /\ Live /\ Alive(head_) /\ Alive(other_)
    /\ mem' = swap(mem, t, Other(t))
    /\ bulk' = [no_call EXCEPT !.op = "swap", !.tree = t,
                                !.n = bulk.n + 1, !.clones = bulk.clones,
                                !.swaps = bulk.swaps + 1]
    /\ UNCHANGED << ref, last >>

NextBulk ==
    \/ \E t \in Trees : \E r \in Pool(t) : InsertInto(t, r)
    \/ \E t \in Trees : \E k \in 1 .. BulkKeys : EraseFrom(t, k)
    \/ \E t \in Trees : \E k \in 1 .. BulkKeys :
          \E z \in Pool(t) : InsertForKey(t, k, z)
    \/ \E t \in Trees : Clear(t)
    \/ \E t \in Trees : ClearAndDispose(t)
    \/ \E fail_at \in 0 .. BulkKeys : Clone(fail_at)
    \/ \E t \in Trees : Swap(t)

SpecBulk == Init /\ [][NextBulk]_vars

\* ------------------------------------------------------------------------
\* Vocabulary of the properties

\* the operation that was called last has returned
Completed == mem.ok

Linked == linked(mem, head_)

\* the numbers of black nodes on the downward paths from n to a missing child
RECURSIVE black_counts(_, _)
black_counts(m, n) ==
    IF n = Null THEN {0}
    ELSE {c + (IF m.is_red[n] THEN 0 ELSE 1) :
            c \in black_counts(m, m.left[n]) \cup black_counts(m, m.right[n])}

\* the ascending sequence of the elements of a set of integers
RECURSIVE sorted_seq(_)
sorted_seq(S) ==
    IF S = {} THEN << >>
    ELSE LET lo == CHOOSE a \in S : \A b \in S : a <= b
         IN  << lo >> \o sorted_seq(S \ {lo})

keys_of(s) == [i \in 1 .. Len(s) |-> key_of(s[i])]

range(s) == {s[i] : i \in 1 .. Len(s)}

\* ------------------------------------------------------------------------
\* C1: after any sequence of insert and erase calls, every key in the left
\* subtree of a linked node x orders strictly before key(x) and every key in
\* its right subtree strictly after it; no two linked records compare equal.
C1_BstOrdering ==
    Completed =>
        /\ \A x \in Linked :
              /\ \A y \in subtree(mem, mem.left[x]) :
                    is_less_than(key_of(y), key_of(x))
              /\ \A y \in subtree(mem, mem.right[x]) :
                    is_less_than(key_of(x), key_of(y))
        /\ \A x \in Linked : \A y \in Linked :
              x # y => (is_less_than(key_of(x), key_of(y))
                        \/ is_less_than(key_of(y), key_of(x)))

\* a completed erase left a node with a non-empty left and right subtree in
\* a tree some record of which has an equal-keyed twin outside the tree
C1_Witness ==
    /\ Completed
    /\ last.op = "erase" /\ last.ret # Null
    /\ \E x \in Linked : mem.left[x] # Null /\ mem.right[x] # Null
    /\ \E x \in Linked : \E r \in Records \ Linked : key_of(r) = key_of(x)

\* C3: after every insert and every erase completes, all downward paths
\* from any linked node to a missing child contain the same number of black
\* nodes, also after erasing a black node that has no children.
C3_BlackHeightRule ==
    Completed => \A n \in Linked : Cardinality(black_counts(mem, n)) = 1

\* C4: after every insert and every erase completes, no red linked node has
\* a red parent.
C4_RedRule ==
    Completed =>
        \A n \in Linked :
            (mem.is_red[n] /\ mem.parent[n] # head_) => ~mem.is_red[mem.parent[n]]

\* C5: after every insert and every erase completes, the root is black or
\* the tree is empty.
C5_RootBlack ==
    Completed => (empty(mem, head_) \/ is_black(mem, root(mem, head_)))

\* C6: after every insert and every erase completes, head.left is the linked
\* node with the smallest key and head.right the one with the largest key;
\* when no node is linked both reference the sentinel and head.parent is null.
C6_SentinelCache ==
    Completed =>
        IF Linked = {}
        THEN /\ mem.left[head_] = head_
             /\ mem.right[head_] = head_
             /\ mem.parent[head_] = Null
        ELSE /\ mem.left[head_] \in Linked
             /\ mem.right[head_] \in Linked
             /\ \A n \in Linked :
                   /\ key_of(mem.left[head_]) <= key_of(n)
                   /\ key_of(n) <= key_of(mem.right[head_])

\* C2: with insert and erase applied in lockstep to the tree and to the
\* reference set, after every step contains/find report a key present
\* exactly when the reference set holds it, insert returned inserted = true
\* exactly when the reference set did not hold the key, and the keys visited
\* iterating the tree are the reference set's keys in ascending order.
C2_RefinesReference ==
    Completed =>
        /\ \A k \in Keys : contains(mem, head_, k) <=> k \in ref
        /\ \A k \in ref : key_of(find_node(mem, head_, k)) = k
        /\ last.op = "insert" => (last.inserted <=> ~last.had)
        /\ keys_of(iterate(mem, head_)) = sorted_seq(ref)

\* a key erased by the call before is inserted again, into a tree of at
\* least three other records
C2_Witness ==
    /\ Completed
    /\ last.op = "insert" /\ last.inserted /\ last.follows
    /\ Cardinality(ref) >= 4

\* a red node is linked below the root after a completed erase
C4_Witness ==
    /\ Completed
    /\ last.op = "erase" /\ last.ret # Null
    /\ \E n \in Linked : mem.is_red[n] /\ mem.parent[n] # head_

\* the record just inserted was rotated into the root of a non-empty tree
C5_Witness ==
    /\ Completed
    /\ last.op = "insert" /\ last.inserted
    /\ last.pre # << >>
    /\ root(mem, head_) = last.rec

\* the last element was erased
C6_WitnessEmpty ==
    /\ Completed
    /\ last.op = "erase" /\ last.ret # Null
    /\ Linked = {}

\* C7: insert of a record when a linked record has an equal key returns
\* inserted = false with the position of the linked record, and writes no
\* field of any record nor of the sentinel.
C7_DuplicateInsertNoMutation ==
    [][ (last'.op = "insert"
         /\ \E x \in Linked : key_of(x) = last'.key)
        => (/\ ~last'.inserted
            /\ last'.ret \in Linked
            /\ key_of(last'.ret) = last'.key
            /\ mem' = mem) ]_vars

\* a record was rejected because another record with an equal key is linked
C7_Witness ==
    /\ Completed
    /\ last.op = "insert" /\ ~last.inserted
    /\ last.ret # last.rec
    /\ last.ret \in Linked /\ last.rec \notin Linked

C9_InsertEraseInverse ==
    [][ (/\ last.op = "insert" /\ last.inserted
         /\ last'.op = "erase" /\ last'.key = last.key)
        => (/\ Completed'
            /\ ~contains(mem', head_, last.key)
            /\ keys_of(iterate(mem', head_)) = keys_of(last.pre)) ]_vars

\* a key was erased right after its insertion into a tree of three or more
C9_Witness ==
    /\ Completed
    /\ last.op = "erase" /\ last.follows
    /\ Cardinality(Linked) >= 3

\* C10: erase of a linked key returns the record with that key, which ends
\* unlinked and referenced by no field of a remaining node or the sentinel,
\* and every other record that was linked is still linked.
C10_EraseReturnsRecord ==
    (last.op = "erase" /\ last.key \in {key_of(x) : x \in range(last.pre)})
    => /\ Completed
       /\ last.ret \in range(last.pre)
       /\ key_of(last.ret) = last.key
       /\ unlinked(mem, last.ret)
       /\ \A a \in Addr : /\ mem.left[a] # last.ret
                          /\ mem.right[a] # last.ret
                          /\ mem.parent[a] # last.ret
       /\ Linked = range(last.pre) \ {last.ret}

\* ------------------------------------------------------------------------
\* C11: in every tree reached by inserts and erases, the walk from begin()
\* by ++ visits every linked record exactly once, in strictly increasing key
\* order, and the ++ after the last record gives end(); begin() of an empty
\* tree is end().
C11_ForwardIteration ==
    LET visits(s) ==
            /\ Len(s) = Cardinality(Linked)
            /\ range(s) = Linked
            /\ \A i \in 1 .. Len(s) - 1 :
                  is_less_than(key_of(s[i]), key_of(s[i + 1]))
            /\ IF s = << >>
               THEN begin(mem, head_) = end(head_)
               ELSE next(mem, s[Len(s)]) = end(head_)
    IN  Completed => visits(iterate(mem, head_))

\* after a completed erase some record's successor is reached by climbing
\* over more than one parent and another's by descending below a right child
C11_Witness ==
    /\ Completed
    /\ last.op = "erase" /\ last.ret # Null
    /\ \E x \in Linked : /\ mem.right[x] = Null
                         /\ next(mem, x) \notin {mem.parent[x], head_}
    /\ \E x \in Linked : /\ mem.right[x] # Null
                         /\ next(mem, x) # mem.right[x]

\* C12: in every non-empty tree reached by inserts and erases, -- applied to
\* end() gives the record with the largest key.
C12_DecrementEnd ==
    (Completed /\ Linked # {}) =>
        /\ prev(mem, end(head_)) \in Linked
        /\ \A n \in Linked : key_of(n) <= key_of(prev(mem, end(head_)))

\* ------------------------------------------------------------------------
\* Vocabulary of the properties of two trees

\* the four fields of the node at address a
fields(m, a) == << m.left[a], m.right[a], m.parent[a], m.is_red[a] >>

\* the step writes no field of the nodes in S
untouched(S) == \A a \in S : fields(mem', a) = fields(mem, a)

\* no element occurs twice in the sequence s
no_repeats(s) == \A i \in 1 .. Len(s) : \A j \in 1 .. Len(s) :
                    s[i] = s[j] => i = j

\* C13: clear_and_dispose on a tree passes every record that was linked to
\* the disposer exactly once, passes nothing else (never the sentinel), and
\* leaves empty() true.
C13_DisposalCompleteness ==
    [][ bulk'.op = "clear_and_dispose"
        => (/\ no_repeats(bulk'.disposed)
            /\ range(bulk'.disposed) = linked(mem, bulk'.tree)
            /\ empty(mem', bulk'.tree)) ]_vars

\* a tree of three or more records was cleared with a disposer
C13_Witness ==
    /\ bulk.op = "clear_and_dispose"
    /\ Len(bulk.disposed) >= 3

\* C14: after clear(), empty() is true, begin() equals end(), the sentinel
\* is as in a newly constructed tree (parent null, left and right the
\* sentinel itself), and no field of a record was written.
C14_ClearForgetsLinks ==
    [][ bulk'.op = "clear"
        => (/\ empty(mem', bulk'.tree)
            /\ begin(mem', bulk'.tree) = end(bulk'.tree)
            /\ mem'.parent[bulk'.tree] = Null
            /\ mem'.left[bulk'.tree] = bulk'.tree
            /\ mem'.right[bulk'.tree] = bulk'.tree
            /\ untouched(Addr \ Trees)) ]_vars

\* C15: for a tree built by inserts and erases, when no call of the cloner
\* fails, the walk from begin() to end() of the tree returned by clone()
\* visits as many records as the walk of the original, with the same keys in
\* the same order, none of them a record of the original.
C15_CloneFidelity ==
    [][ (bulk.n = 0 /\ bulk'.op = "clone" /\ ~bulk'.thrown)
        => (/\ keys_of(iterate(mem', other_)) = keys_of(iterate(mem, head_))
            /\ range(iterate(mem', other_)) \cap linked(mem, head_) = {}) ]_vars

\* C16: when the cloner fails in its call number k, the disposer is called
\* exactly once on each of the k-1 records the cloner returned before and on
\* nothing else, the failure reaches the caller, no tree is returned and no
\* field of the original tree is written.
C16_CloneRollback ==
    [][ (bulk'.op = "clone" /\ bulk'.fail_at >= 1)
        => (/\ bulk'.thrown
            /\ Len(bulk'.cloned) = bulk'.fail_at - 1
            /\ no_repeats(bulk'.cloned)
            /\ no_repeats(bulk'.disposed)
            /\ range(bulk'.disposed) = range(bulk'.cloned)
            /\ linked(mem', other_) \cap range(bulk'.cloned) = {}
            /\ mem'.ok
            /\ untouched({head_} \cup linked(mem, head_))
            /\ iterate(mem', head_) = iterate(mem, head_)) ]_vars

\* the cloner failed in its fourth call or later
C16_Witness ==
    /\ bulk.op = "clone" /\ bulk.thrown
    /\ Len(bulk.disposed) >= 3

\* C17: for two trees built by inserts and erases (no clone was made),
\* after a.swap(b) the walk of a visits the records the walk of b visited
\* before, in the same order, and the walk of b those of a, whether both
\* trees, one of them or none held records.
C17_SwapCorrectness ==
    [][ (bulk'.op = "swap" /\ bulk.clones = 0)
        => (/\ mem'.ok
            /\ iterate(mem', head_) = iterate(mem, other_)
            /\ iterate(mem', other_) = iterate(mem, head_)) ]_vars

\* two trees of two or more records each were swapped
C17_Witness ==
    /\ bulk.op = "swap" /\ bulk.clones = 0
    /\ Cardinality(linked(mem, head_)) >= 2
    /\ Cardinality(linked(mem, other_)) >= 2

\* C18: insert_for_key calls the factory exactly once when no linked record
\* has the key, links the node it returns and returns inserted = true; when
\* a linked record has the key it does not call the factory, returns the
\* position of that record and inserted = false, and writes nothing.
C18_FactoryOnlyIfAbsent ==
    [][ bulk'.op = "insert_for_key"
        => IF \E x \in linked(mem, bulk'.tree) : key_of(x) = bulk'.key
           THEN /\ bulk'.calls = 0
                /\ ~bulk'.inserted
                /\ bulk'.it \in linked(mem, bulk'.tree)
                /\ key_of(bulk'.it) = bulk'.key
                /\ mem' = mem
           ELSE /\ bulk'.calls = 1
                /\ bulk'.inserted
                /\ bulk'.it \notin linked(mem, bulk'.tree)
                /\ key_of(bulk'.it) = bulk'.key
                /\ linked(mem', bulk'.tree)
                     = linked(mem, bulk'.tree) \cup {bulk'.it} ]_vars

\* insert_for_key found its key in a tree of two or more records
C18_Witness ==
    /\ bulk.op = "insert_for_key"
    /\ ~bulk.inserted
    /\ bulk.it \in linked(mem, bulk.tree)
    /\ Cardinality(linked(mem, bulk.tree)) >= 2

\* C19: clone() writes no field of a node or of the sentinel of the original
\* tree, and an insert or erase on one of the two trees (the clone or the
\* original, with nothing but inserts and erases made on them) writes no
\* field of a node or of the sentinel of the other and leaves its walk as it
\* was.
C19_CloneIndependence ==
    [][ /\ bulk'.op = "clone"
           => untouched({head_} \cup linked(mem, head_))
        /\ (/\ bulk'.op \in {"insert", "erase", "insert_for_key"}
            /\ bulk.swaps = 0
            /\ Alive(Other(bulk'.tree)))
           => /\ untouched({Other(bulk'.tree)}
                           \cup linked(mem, Other(bulk'.tree)))
              /\ iterate(mem', Other(bulk'.tree))
                   = iterate(mem, Other(bulk'.tree)) ]_vars

\* a record was erased from a tree returned by clone() (it still holds a
\* record only the cloner makes) while the original holds records
C19_Witness ==
    /\ bulk.op = "erase" /\ bulk.tree = other_
    /\ bulk.clones >= 1 /\ bulk.swaps = 0
    /\ linked(mem, other_) \cap (CloneRecords \ OtherRecords) # {}
    /\ Cardinality(linked(mem, other_)) < Cardinality(linked(mem, head_))
    /\ linked(mem, head_) \subseteq BulkRecords

\* C20: once clear_and_dispose has completed, the tree is empty and
\* head.left and head.right reference the sentinel itself, so that begin()
\* equals end().
C20_SentinelAfterDispose ==
    [][ bulk'.op = "clear_and_dispose"
        => (/\ empty(mem', bulk'.tree)
            /\ mem'.left[bulk'.tree] = bulk'.tree
            /\ mem'.right[bulk'.tree] = bulk'.tree
            /\ begin(mem', bulk'.tree) = end(bulk'.tree)) ]_vars

\* C21: when clone() of a non-empty tree built by inserts and erases returns,
\* head.left of the new tree is the copy of the minimum of the original and
\* head.right the copy of its maximum.
C21_CloneCaches ==
    [][ (/\ bulk.n = 0 /\ bulk'.op = "clone" /\ ~bulk'.thrown
         /\ ~empty(mem, head_))
        => (/\ mem'.left[other_]
                  = partner(find_minimum(mem, root(mem, head_)))
            /\ mem'.right[other_]
                  = partner(find_maximum(mem, root(mem, head_)))) ]_vars

\* the copy of the reference p held by a node of the tree h, in the tree rv
copy_of(p, h, rv) ==
    IF p = Null THEN Null ELSE IF p = h THEN rv ELSE partner(p)

\* C22: when clone() returns, the cloner has been called exactly once for
\* each linked record of the original, and the copies are linked as the
\* originals are: each copy has the colour of its original, the copy of its
\* left child as left child, the copy of its right child as right child (none
\* where the original has none) and the copy of its parent as parent, the
\* parent of the copied root being the sentinel of the new tree.
C22_CloneIsomorphic ==
    [][ LET same(r) ==
                /\ mem'.is_red[partner(r)] = mem.is_red[r]
                /\ mem'.left[partner(r)]
                      = copy_of(mem.left[r], head_, other_)
                /\ mem'.right[partner(r)]
                      = copy_of(mem.right[r], head_, other_)
                /\ mem'.parent[partner(r)]
                      = copy_of(mem.parent[r], head_, other_)
            mirrors(L) ==
                /\ no_repeats(bulk'.cloned)
                /\ range(bulk'.cloned) = {partner(r) : r \in L}
                /\ root(mem', other_)
                      = copy_of(root(mem, head_), head_, other_)
                /\ \A r \in L : same(r)
        IN  (bulk'.op = "clone" /\ ~bulk'.thrown)
            => mirrors(linked(mem, head_)) ]_vars

\* a clone has returned the copy of a tree of four records, one of them red
\* and one with two children
C22_Witness ==
    /\ bulk.op = "clone" /\ ~bulk.thrown
    /\ Len(bulk.cloned) >= 4
    /\ \E n \in linked(mem, other_) : mem.is_red[n]
    /\ \E n \in linked(mem, other_) :
          mem.left[n] # Null /\ mem.right[n] # Null

\* C23: after any sequence of inserts and erases, decrementing an iterator at
\* a linked record yields the record before it in key order, and the end
\* position when the record is the minimum; incrementing and then
\* decrementing an iterator at a linked record leads back to it, and so does
\* decrementing and then incrementing one at a record other than the minimum.
C23_PredecessorMirror ==
    LET mirrored(s) ==
            \A i \in 1 .. Len(s) :
                /\ prev(mem, s[i]) = IF i = 1 THEN end(head_) ELSE s[i - 1]
                /\ prev(mem, next(mem, s[i])) = s[i]
                /\ i > 1 => next(mem, prev(mem, s[i])) = s[i]
    IN  Completed => mirrored(iterate(mem, head_))

\* the tree of sentinel t stands on its own in the memory m: its root's
\* parent is t and t.left, t.right are its minimum and maximum, or it is
\* empty with t.left and t.right referencing t; and no linked node of it
\* references the sentinel o of the other tree
well_formed(m, t, o) ==
    /\ IF root(m, t) # Null
       THEN /\ m.parent[root(m, t)] = t
            /\ m.left[t] = find_minimum(m, root(m, t))
            /\ m.right[t] = find_maximum(m, root(m, t))
       ELSE /\ m.left[t] = t
            /\ m.right[t] = t
    /\ \A n \in linked(m, t) :
          o \notin {m.parent[n], m.left[n], m.right[n]}

\* C24: after a swap of two trees built by inserts and erases (both holding
\* records, one of them, or none), no assertion has failed and each tree is
\* well-formed on its own: the root of a tree holding records has that
\* tree's sentinel as parent and head.left, head.right are its minimum and
\* maximum, an empty tree has head.parent null and head.left, head.right
\* referencing its own sentinel, and no node references the sentinel of the
\* other tree.
C24_SwapWellFormed ==
    [][ (bulk'.op = "swap" /\ bulk.clones = 0)
        => (/\ mem'.ok
            /\ \A t \in Trees : well_formed(mem', t, Other(t))) ]_vars

\* a swap has moved a tree of at least two records to the sentinel of a tree
\* that was empty
C24_Witness ==
    /\ bulk.op = "swap" /\ bulk.clones = 0
    /\ \E t \in Trees : /\ empty(mem, t)
                        /\ Cardinality(linked(mem, Other(t))) >= 2

\* more iterations than any loop of insert and erase can make on the records
\* at hand
LoopFuel == 2 * MaxRec

\* the nodes x the descent loop of insert (and of find_node) visits for key,
\* one per iteration, at most fuel of them
RECURSIVE descent_trace(_, _, _, _)
descent_trace(m, x, key, fuel) ==
    IF x = Null \/ fuel = 0 THEN << >>
    ELSE IF is_less_than(key, to_key(x))
    THEN << x >> \o descent_trace(m, m.left[x], key, fuel - 1)
    ELSE IF is_less_than(to_key(x), key)
    THEN << x >> \o descent_trace(m, m.right[x], key, fuel - 1)
    ELSE << x >>

\* the memory and the position z at each evaluation of the loop condition of
\* insert_fixup, the last one being the evaluation that ends the loop (or
\* the iteration in which an assertion fails), at most fuel iterations
RECURSIVE insert_fixup_trace(_, _, _, _)
insert_fixup_trace(m, h, z, fuel) ==
    LET loop(t) == insert_fixup_trace(t.m, h, t.z, fuel - 1)
    IN  IF /\ fuel > 0 /\ m.ok
           /\ m.parent[z] # h
           /\ m.is_red[m.parent[z]]
           /\ m.parent[m.parent[z]] # h
        THEN << [m |-> m, at |-> z] >>
             \o loop(IF m.parent[z] = m.left[m.parent[m.parent[z]]]
                     THEN insert_fixup_left(m, h, z)
                     ELSE insert_fixup_right(m, h, z))
        ELSE << [m |-> m, at |-> z] >>

\* the memory and the position x at each evaluation of the loop condition of
\* erase_fixup
RECURSIVE erase_fixup_trace(_, _, _, _)
erase_fixup_trace(m, h, x, fuel) ==
    LET at(t) == erase_fixup_trace(t.m, h, t.x, fuel - 1)
    IN  IF fuel > 0 /\ m.ok /\ x # root(m, h) /\ is_black(m, x)
        THEN << [m |-> m, at |-> x] >>
             \o at(IF x = m.left[m.parent[x]]
                   THEN erase_fixup_left(m, h, x)
                   ELSE erase_fixup_right(m, h, x))
        ELSE << [m |-> m, at |-> x] >>

\* the number of parent references from the node n up to the sentinel h
RECURSIVE edges(_, _, _, _)
edges(m, h, n, fuel) ==
    IF n = h \/ n = Null \/ fuel = 0 THEN 0
    ELSE 1 + edges(m, h, m.parent[n], fuel - 1)

\* the loop whose condition was evaluated at the positions t ends within
\* LoopFuel iterations, and from one evaluation to the next the position has
\* moved toward the root unless the next evaluation ends the loop
exits(t) ==
    /\ Len(t) <= LoopFuel
    /\ \A i \in 1 .. Len(t) - 1 :
          \/ i + 1 = Len(t)
          \/ edges(t[i + 1].m, head_, t[i + 1].at, LoopFuel)
                < edges(t[i].m, head_, t[i].at, LoopFuel)

\* the descent for key ends within LoopFuel iterations, at a different node
\* in each
descends(key) ==
    LET distinct(s) == Len(s) < LoopFuel /\ no_repeats(s)
    IN  distinct(descent_trace(mem, root(mem, head_), key, LoopFuel))

\* the loops of insert(record r) called in the current state exit
insert_loops_exit(r) ==
    LET fixed(d) ==
            d.x = Null
            => exits(insert_fixup_trace(
                   insert_parent_link(reset(mem, r), head_, d.y, r),
                   head_, r, LoopFuel))
    IN  /\ descends(key_of(r))
        /\ fixed(insert_descend(mem, root(mem, head_), Null, key_of(r)))

\* the loops of erase(key) called in the current state exit
erase_loops_exit(key) ==
    LET fixed(s) ==
            (~s.y_is_red /\ s.x # Null)
            => exits(erase_fixup_trace(s.m, head_, s.x, LoopFuel))
        spliced(z) ==
            z # end(head_)
            => fixed(erase_node_splice(erase_node_head(mem, head_, z),
                                       head_, z))
    IN  /\ descends(key)
        /\ spliced(find_node(mem, head_, key))

\* C25: every insert and every erase called on a tree built by inserts and
\* erases runs to completion: it returns, its descent loop and its fix-up
\* loop exit after finitely many iterations, and from one iteration of a
\* fix-up loop to the next the position moves toward the root, or the loop
\* stops.
C25_RunsToCompletion ==
    [][ /\ mem'.ok
        /\ last'.op = "insert" => insert_loops_exit(last'.rec)
        /\ last'.op = "erase" => erase_loops_exit(last'.key) ]_vars

\* the loops exit in every call, whether or not the call returns
LoopsExit ==
    [][ /\ last'.op = "insert" => insert_loops_exit(last'.rec)
        /\ last'.op = "erase" => erase_loops_exit(last'.key) ]_vars

\* C26: in every state reached by inserts and erases no assertion has failed
\* and no absent node has been dereferenced: rotate_left was only called on a
\* node with a right child, rotate_right on a node with a left child, and
\* the sibling w was present wherever erase_fixup read it.
C26_NoAssertionFails == mem.ok

\* the parent and child references of the tree of sentinel h agree in the
\* memory m: the root's parent is h, the children of a linked node have it
\* as parent, a linked node below the root is a child of its parent, and
\* the parent references lead from every linked node to h
consistent(m, h) ==
    LET child_of(n, p) == (m.left[p] = n) # (m.right[p] = n)
        agree(L) ==
            \A n \in L :
                /\ m.left[n] # Null => m.parent[m.left[n]] = n
                /\ m.right[n] # Null => m.parent[m.right[n]] = n
                /\ n # root(m, h) => (m.parent[n] \in L
                                      /\ child_of(n, m.parent[n]))
                /\ edges(m, h, n, LoopFuel) <= Cardinality(L)
                /\ h \notin {m.left[n], m.right[n]}
    IN  /\ root(m, h) # Null => m.parent[root(m, h)] = h
        /\ agree(linked(m, h))

\* C27: after every insert and every erase that completes, head.parent is
\* the root and the root's parent the sentinel, the children of every linked
\* node have that node as parent, every linked node below the root is the
\* left or the right child of its parent, and the nodes reachable from the
\* root are exactly the records inserted and not erased: the record of a
\* successful insert joins them, the record erase returns leaves them, and
\* no other call changes them.
C27_ParentLinks ==
    [][ mem'.ok
        => (/\ consistent(mem', head_)
            /\ linked(mem', head_)
                  = IF last'.op = "insert" /\ last'.inserted
                    THEN Linked \cup {last'.rec}
                    ELSE IF last'.op = "erase"
                    THEN Linked \ {last'.ret}
                    ELSE Linked) ]_vars

\* a completed erase returned a record whose successor in key order now has
\* two children, in a tree of at least four records
C27_Witness ==
    /\ Completed
    /\ last.op = "erase" /\ last.ret # Null
    /\ Cardinality(Linked) >= 4
    /\ \E i \in 1 .. Len(last.pre) - 1 :
          /\ last.pre[i] = last.ret
          /\ mem.left[last.pre[i + 1]] # Null
          /\ mem.right[last.pre[i + 1]] # Null

\* C28: through any sequence of inserts, erases, clones and swaps the colour
\* of the sentinel of every tree stays black, as constructed, and the
\* assertion of swap on the colours of the two sentinels does not fail.
C28_SentinelColour ==
    [][ /\ \A t \in Trees : is_black(mem', t)
        /\ bulk'.op = "swap" => mem'.ok ]_vars

\* a swap has exchanged a tree and its clone, both holding records
C28_Witness ==
    /\ bulk.op = "swap" /\ bulk.clones >= 1
    /\ \A t \in Trees : Cardinality(linked(mem, t)) >= 2
    /\ linked(mem, other_) \subseteq BulkRecords

\* the iterations of the walk of clear_and_dispose_helper (and of the
\* rollback of clone) from the node x, at most fuel of them: the nodes whose
\* fields the iteration reads or writes (x, and x->left when there is one)
\* and the record it passes to the disposer as its last access (null in an
\* iteration that rotates)
RECURSIVE dispose_walk(_, _, _)
dispose_walk(m, x, fuel) ==
    LET rotated(a, s) == set_right(set_left(a, x, a.right[s]), s, x)
    IN  IF x = Null \/ fuel = 0 THEN << >>
        ELSE IF m.left[x] # Null
        THEN << [touched |-> {x, m.left[x]}, disposed |-> Null] >>
             \o dispose_walk(rotated(m, m.left[x]), m.left[x], fuel - 1)
        ELSE << [touched |-> {x}, disposed |-> x] >>
             \o dispose_walk(m, m.right[x], fuel - 1)

\* the records the iterations t pass to the disposer, in order
disposals(t) ==
    LET passed(d) == [i \in 1 .. Len(d) |-> d[i].disposed]
    IN  passed(SelectSeq(t, LAMBDA e : e.disposed # Null))

\* the walk t over n records makes at most two iterations per record, and
\* no iteration touches a record an earlier one passed to the disposer
walk_safe(t, n) ==
    /\ Len(t) <= 2 * n
    /\ \A i \in 1 .. Len(t) : \A j \in i + 1 .. Len(t) :
          t[i].disposed \notin t[j].touched

\* C29: in clear_and_dispose and in the rollback of clone, a record passed
\* to the disposer is not read or written afterwards, neither by a later
\* iteration of the walk (which never steps back to it) nor by the rest of
\* the call, and the walk makes at most two iterations per linked record.
C29_DisposeWalkSafe ==
    [][ LET safe(t, m1, n) ==
                /\ walk_safe(t, n)
                /\ disposals(t) = bulk'.disposed
                /\ \A r \in range(bulk'.disposed) :
                      fields(mem', r) = fields(m1, r)
            cleared(x) ==
                safe(dispose_walk(mem, x, LoopFuel + 1),
                     clear_and_dispose_helper(mem, x, << >>).m,
                     Cardinality(subtree(mem, x)))
            unwound(w) ==
                safe(dispose_walk(w.m, root(w.m, other_), LoopFuel + 1),
                     clone_rollback(w.m, root(w.m, other_), << >>).m,
                     Len(w.cloned))
        IN  /\ bulk'.op = "clear_and_dispose"
               => cleared(root(mem, bulk'.tree))
            /\ (bulk'.op = "clone" /\ bulk'.thrown)
               => unwound(clone_build(mem, head_, other_, bulk'.fail_at))
      ]_vars

\* clear_and_dispose has disposed of a tree of at least three records
\* whose minimum was not the root, so that the walk has rotated
C29_Witness ==
    /\ bulk.op = "clear_and_dispose"
    /\ Len(bulk.disposed) >= 3
    /\ mem.parent[bulk.disposed[1]] # bulk.tree

====
